---- MODULE Spec2Model ----
(***************************************************************************)
(* Model of find_duplicates.py: FileInfo (lazy content hash), the          *)
(* DuplicateFinder scanner, the four grouping methods, move_duplicates     *)
(* with its per-file relocation and collision renaming, and main's         *)
(* selection of the groups it relocates.                                   *)
(*                                                                         *)
(* A file name is a sequence of one-character strings, a path a sequence   *)
(* of names (absolute, from the filesystem root).  The filesystem is a     *)
(* function from the existing paths to their entries.                      *)
(***************************************************************************)
EXTENDS Integers, Sequences, FiniteSets, TLC

VARIABLES
    fs,        \* the filesystem: path -> entry
    files,     \* DuplicateFinder.files: sequence of FileInfo records
    reads,     \* per FileInfo: how many times _calculate_hash opened the file
    nscans,    \* scan_directory calls made on the current finder
    naccess,   \* calls the caller made that read FileInfo.hash or group the files
    dups,      \* the groups at hand: a find_duplicates_* result, or main's all_duplicates
    by,        \* the criterion of the find_duplicates_* call that ran last
    shown,     \* main: what display_duplicates was given, in order: [crit, groups]
    args,      \* main's parsed arguments
    call,      \* the arguments of the move_duplicates call
    stats,     \* move_duplicates' statistics dictionary
    gi,        \* move_duplicates: index of the group being processed
    fi,        \* move_duplicates: index in files_to_move (0: group not entered yet)
    log,       \* one record per _move_single_file call (what the call printed and did)
    fs0,       \* the filesystem when move_duplicates was called
    nfail,     \* environment failures injected so far
    runs,      \* results of the completed scan+group pipelines
    pc         \* position of the caller

vars == <<fs, files, reads, nscans, naccess, dups, by, shown, args, call, stats,
          gi, fi, log, fs0, nfail, runs, pc>>

----------------------------------------------------------------------------
(* Bounds of the model *)

MaxScans == 2
MaxAccess == 3
MaxFailures == 1
MaxRuns == 2

----------------------------------------------------------------------------
(* Sequences *)

Range(s) == {s[i] : i \in 1..Len(s)}

RECURSIVE Concat(_)
Concat(ss) == IF ss = <<>> THEN <<>> ELSE Head(ss) \o Concat(Tail(ss))

RECURSIVE SumSeq(_)
SumSeq(s) == IF s = <<>> THEN 0 ELSE Head(s) + SumSeq(Tail(s))

IsPrefix(p, q) == Len(p) <= Len(q) /\ SubSeq(q, 1, Len(p)) = p

----------------------------------------------------------------------------
(* pathlib: name, suffix, stem, parent, relative_to *)

\* str.lower on the characters the model uses
Lower(c) == IF c = "T" THEN "t" ELSE c

LowerStr(s) == [i \in 1..Len(s) |-> Lower(s[i])]

\* str.rfind('.') as a 1-based index, 0 when there is no dot
RFindDot(name) ==
    LET dots == {i \in 1..Len(name) : name[i] = "."}
    IN  IF dots = {} THEN 0 ELSE CHOOSE i \in dots : \A j \in dots : j <= i

\* PurePath.suffix: the last dot counts when it is neither first nor last
PathSuffix(name) ==
    LET i == RFindDot(name)
    IN  IF 1 < i /\ i < Len(name) THEN SubSeq(name, i, Len(name)) ELSE <<>>

\* PurePath.stem
PathStem(name) ==
    LET i == RFindDot(name)
    IN  IF 1 < i /\ i < Len(name) THEN SubSeq(name, 1, i - 1) ELSE name

PathName(p) == IF p = <<>> THEN <<>> ELSE p[Len(p)]

PathParent(p) == IF p = <<>> THEN <<>> ELSE SubSeq(p, 1, Len(p) - 1)

\* str(int) for a non-negative int, as characters
RECURSIVE IntStr(_)
IntStr(n) == IF n < 10 THEN <<ToString(n)>>
             ELSE IntStr(n \div 10) \o <<ToString(n % 10)>>

----------------------------------------------------------------------------
(* The names and directories of the modelled machine *)

W == <<"w">>
O == <<"o">>
X == <<"x">>
Y == <<"y">>
D == <<"d">>
A == <<"a">>
At == <<"a", ".", "t">>
AT == <<"a", ".", "T">>
A1t == <<"a", "_", "1", ".", "t">>

\* Path.cwd()
Cwd == <<W>>

\* os.scandir order of the entries of one directory: by position in this list
NameOrder == <<At, A, AT, A1t, X, Y, D, W, O>>

NameRank(n) == IF \E i \in 1..Len(NameOrder) : NameOrder[i] = n
               THEN CHOOSE i \in 1..Len(NameOrder) : NameOrder[i] = n
               ELSE Len(NameOrder) + 1

----------------------------------------------------------------------------
(* The filesystem *)

\* content: sequence of bytes; mode: "ok", "noread" (open fails), "nostat"
\* (stat fails); a directory of mode "bad" cannot be listed
FileEntry(c, m) == [kind |-> "file", content |-> c, mode |-> m]
DirEntry(m) == [kind |-> "dir", content |-> <<>>, mode |-> m]

Exists(f, p) == p = <<>> \/ p \in DOMAIN f
IsDir(f, p) == p = <<>> \/ (p \in DOMAIN f /\ f[p].kind = "dir")
IsFile(f, p) == p \in DOMAIN f /\ f[p].kind = "file"

\* the paths a file system must hold as directories for p to exist
Ancestors(p) == {SubSeq(p, 1, k) : k \in 1..(Len(p) - 1)}

Put(f, p, e) == [q \in DOMAIN f \cup {p} |-> IF q = p THEN e ELSE f[q]]

Remove(f, p) == [q \in DOMAIN f \ {p} |-> f[q]]

\* Path.mkdir(parents=True, exist_ok=True) can succeed: nothing on the way is a file
CanMkdirs(f, p) == \A k \in 1..Len(p) : ~IsFile(f, SubSeq(p, 1, k))

Mkdirs(f, p) ==
    LET new == {SubSeq(p, 1, k) : k \in 1..Len(p)} \ DOMAIN f
    IN  [q \in DOMAIN f \cup new |-> IF q \in new THEN DirEntry("ok") ELSE f[q]]

\* a tree from its files (directories are made as needed) and unlistable directories
MakeTree(fileSet, badDirs) ==
    LET paths == {x[1] : x \in fileSet}
        dirs == UNION {Ancestors(p) : p \in paths} \cup badDirs
                    \cup UNION {Ancestors(p) : p \in badDirs}
    IN  [q \in paths \cup dirs |->
            IF q \in paths
            THEN LET x == CHOOSE x \in fileSet : x[1] = q IN FileEntry(x[2], x[3])
            ELSE DirEntry(IF q \in badDirs THEN "bad" ELSE "ok")]

C0 == <<"0">>
C1b == <<"1">>

Trees == {
    \* three copies under the working directory, one of them unreadable, and
    \* a file of the same size and other content
    MakeTree({<<Cwd \o <<X, At>>, C0, "ok">>, <<Cwd \o <<Y, At>>, C0, "ok">>,
              <<Cwd \o <<A>>, C0, "noread">>, <<Cwd \o <<Y, AT>>, C1b, "ok">>}, {}),
    \* a directory that cannot be listed, a populated destination
    MakeTree({<<Cwd \o <<At>>, C0, "ok">>, <<Cwd \o <<X, AT>>, C0, "ok">>,
              <<Cwd \o <<D, At>>, C1b, "ok">>, <<Cwd \o <<D, A1t>>, C1b, "ok">>},
             {Cwd \o <<Y>>}),
    \* files outside the working directory, same name in different directories
    MakeTree({<<<<O, X, At>>, C0, "ok">>, <<<<O, Y, At>>, C0, "ok">>,
              <<<<O, At>>, C1b, "ok">>, <<<<O, A>>, <<>>, "nostat">>,
              <<Cwd \o <<At>>, C0, "ok">>}, {}),
    \* one file and a directory that cannot be listed
    MakeTree({<<Cwd \o <<At>>, C0, "ok">>, <<<<O, At>>, C0, "ok">>},
             {Cwd \o <<Y>>, <<O, Y>>})
}

----------------------------------------------------------------------------
(* Directory traversal *)

Children(f, d) == {p \in DOMAIN f : Len(p) = Len(d) + 1 /\ PathParent(p) = d}

\* a set of sibling paths as a sequence in scandir order
RECURSIVE InOrder(_)
InOrder(S) ==
    IF S = {} THEN <<>>
    ELSE LET p == CHOOSE p \in S : \A q \in S : NameRank(PathName(p)) <= NameRank(PathName(q))
         IN  <<p>> \o InOrder(S \ {p})

ListDir(f, d) == InOrder(Children(f, d))

\* the directories under (and including) root, pre-order; a directory that
\* cannot be listed is visited but has no visible subdirectories
RECURSIVE WalkDirs(_, _)
WalkDirs(f, d) ==
    IF f[d].mode = "bad" THEN <<d>>
    ELSE <<d>> \o Concat([i \in 1..Len(ListDir(f, d)) |->
                            IF IsDir(f, ListDir(f, d)[i])
                            THEN WalkDirs(f, ListDir(f, d)[i]) ELSE <<>>])

\* Path.glob("**/*") or Path.glob("*") from root, consumed to its end or to the
\* OSError a directory that cannot be listed raises: what was yielded, and
\* whether it raised
Glob(f, root, recursive) ==
    LET dirs == IF recursive THEN WalkDirs(f, root) ELSE <<root>>
        bad == {k \in 1..Len(dirs) : f[dirs[k]].mode = "bad"}
        stop == IF bad = {} THEN Len(dirs) + 1
                ELSE CHOOSE k \in bad : \A j \in bad : k <= j
    IN  [items |-> Concat([k \in 1..(stop - 1) |-> ListDir(f, dirs[k])]),
         raised |-> bad # {}]

\* the file paths os.walk(root) hands to _process_file (scandir errors are
\* ignored by os.walk), or those of os.listdir(root) that are files
WalkFiles(f, root, recursive) ==
    LET dirs == IF recursive THEN WalkDirs(f, root) ELSE <<root>>
        Files(d) == IF f[d].mode = "bad" THEN <<>>
                    ELSE SelectSeq(ListDir(f, d), LAMBDA p : ~IsDir(f, p))
    IN  Concat([k \in 1..Len(dirs) |-> Files(dirs[k])])

----------------------------------------------------------------------------
(* FileInfo *)

None == <<"None">>

\* hashlib.sha256(content).hexdigest(): a non-empty string, one per content
HexDigest(content) == <<"#">> \o content

\* FileInfo.__init__ succeeds when the file can be stat'ed
CanStat(f, p) == IsFile(f, p) /\ f[p].mode # "nostat"

FileInfo(f, p) ==
    [path |-> p,
     size |-> Len(f[p].content),
     name |-> PathName(p),
     stem |-> PathStem(PathName(p)),
     suffix |-> PathSuffix(PathName(p)),
     hash |-> None]

\* FileInfo._calculate_hash: the digest, or None when the file cannot be opened
CalculateHash(f, p) ==
    IF IsFile(f, p) /\ f[p].mode # "noread" THEN HexDigest(f[p].content) ELSE None

\* FileInfo.hash (the property) on record i: the records and read counts after
\* the access; the value returned is the record's hash field afterwards
HashAccess(f, fl, rd, i) ==
    IF fl[i].hash = None
    THEN [files |-> [fl EXCEPT ![i].hash = CalculateHash(f, fl[i].path)],
          reads |-> [rd EXCEPT ![i] = @ + 1]]
    ELSE [files |-> fl, reads |-> rd]

----------------------------------------------------------------------------
(* DuplicateFinder.scan_directory *)

\* the file_types filter: no filter, or some extension equals the suffix,
\* both lower-cased
TypeMatch(p, types) ==
    types = {} \/ \E ext \in types : LowerStr(PathSuffix(PathName(p))) = LowerStr(ext)

\* the records appended for a sequence of candidate paths
RECURSIVE Collect(_, _, _)
Collect(f, paths, types) ==
    IF paths = <<>> THEN <<>>
    ELSE LET p == Head(paths)
         IN  (IF IsFile(f, p) /\ TypeMatch(p, types) /\ CanStat(f, p)
              THEN <<FileInfo(f, p)>> ELSE <<>>) \o Collect(f, Tail(paths), types)

ScanWithWalk(f, fl, root, recursive, types) ==
    fl \o Collect(f, WalkFiles(f, root, recursive), types)

ScanDirectory(f, fl, directory, recursive, types) ==
    IF ~Exists(f, directory) THEN fl
    ELSE IF ~IsDir(f, directory) THEN fl
    ELSE LET g == Glob(f, directory, recursive)
             got == fl \o Collect(f, g.items, types)
         IN  IF g.raised THEN ScanWithWalk(f, got, directory, recursive, types)
             ELSE got

----------------------------------------------------------------------------
(* The find_duplicates_* methods *)

\* dictionary keys: a str as its characters, an int as its decimal digits, tagged
StrKey(s) == <<"str">> \o s
IntKey(n) == <<"int">> \o IntStr(n)

\* a dict in insertion order: sequence of [key, val]
HasKey(d, k) == \E j \in 1..Len(d) : d[j].key = k
KeyPos(d, k) == CHOOSE j \in 1..Len(d) : d[j].key = k

\* defaultdict(list)[k].append(v)
DictAppend(d, k, v) ==
    IF HasKey(d, k) THEN [d EXCEPT ![KeyPos(d, k)].val = Append(@, v)]
    ELSE Append(d, [key |-> k, val |-> <<v>>])

\* a variant that returns every group
MoreThanOneMutant(d) == d

\* {k: v for k, v in groups.items() if len(v) > 1}
MoreThanOne(d) == SelectSeq(d, LAMBDA e : Len(e.val) > 1)

\* dict.update
RECURSIVE DictUpdate(_, _)
DictUpdate(d, e) ==
    IF e = <<>> THEN d
    ELSE LET h == Head(e)
         IN  DictUpdate(IF HasKey(d, h.key) THEN [d EXCEPT ![KeyPos(d, h.key)].val = h.val]
                        ELSE Append(d, h), Tail(e))

\* the key of a record under a criterion; None for a content key that is falsy
KeyOf(crit, r) ==
    CASE crit = "content" -> IF r.hash = None THEN None ELSE StrKey(r.hash)
      [] crit = "size" -> IntKey(r.size)
      [] crit = "name" -> StrKey(r.name)
      [] crit = "stem" -> StrKey(r.stem)

\* the grouping loop over self.files: groups hold indices into self.files
RECURSIVE GroupLoop(_, _, _, _)
GroupLoop(crit, fl, i, d) ==
    IF i > Len(fl) THEN d
    ELSE GroupLoop(crit, fl, i + 1,
                   IF KeyOf(crit, fl[i]) = None THEN d
                   ELSE DictAppend(d, KeyOf(crit, fl[i]), i))

\* the hash accesses of find_duplicates_by_content's loop, in order
RECURSIVE HashAll(_, _, _, _)
HashAll(f, fl, rd, i) ==
    IF i > Len(fl) THEN [files |-> fl, reads |-> rd]
    ELSE LET a == HashAccess(f, fl, rd, i)
         IN  HashAll(f, a.files, a.reads, i + 1)

\* files and read counts after find_duplicates_<crit>
FilesAfterFind(f, fl, rd, crit) ==
    IF crit = "content" THEN HashAll(f, fl, rd, 1) ELSE [files |-> fl, reads |-> rd]

\* the dictionary find_duplicates_<crit> returns
FindDuplicates(f, fl, rd, crit) ==
    MoreThanOne(GroupLoop(crit, FilesAfterFind(f, fl, rd, crit).files, 1, <<>>))

Criteria == <<"content", "size", "name", "stem">>

----------------------------------------------------------------------------
(* move_duplicates and _move_single_file *)

EmptyStats == [moved_files |-> 0, created_dirs |-> 0, errors |-> <<>>,
               total_space_freed |-> 0, moved_groups |-> 0]

\* source_path.relative_to(Path.cwd()), or source_path.name on ValueError
RelativePath(src) ==
    IF IsPrefix(Cwd, src) THEN SubSeq(src, Len(Cwd) + 1, Len(src))
    ELSE <<PathName(src)>>

DestinationPath(root, src) == root \o RelativePath(src)

\* _get_unique_filename's loop, entered with file_path and counter
RECURSIVE UniqueLoop(_, _, _, _, _, _)
UniqueLoop(f, file_path, base_path, stem, suffix, counter) ==
    IF Exists(f, file_path)
    THEN UniqueLoop(f, base_path \o <<stem \o <<"_">> \o IntStr(counter) \o suffix>>,
                    base_path, stem, suffix, counter + 1)
    ELSE file_path

\* a variant that keeps the conflicting path
GetUniqueFilenameMutant(f, file_path) == file_path

GetUniqueFilename(f, file_path) ==
    UniqueLoop(f, file_path, PathParent(file_path), PathStem(PathName(file_path)),
               PathSuffix(PathName(file_path)), 1)

\* shutil.move(src, dst) that succeeds: dst is a new path, or an existing file
\* that os.rename replaces
ShutilMove(f, src, dst) == Put(Remove(f, src), dst, f[src])

\* files[1:] if keep_first else files
FilesToMove(group, keep_first) == IF keep_first THEN Tail(group) ELSE group

\* a variant that ignores dry_run
MoveSingleFileMutant(f, info, destination_root, dry_run, env) ==
    LET src == info.path
        planned == DestinationPath(destination_root, src)
        canMk == CanMkdirs(f, PathParent(planned)) /\ env # "mkdir"
        f1 == IF canMk THEN Mkdirs(f, PathParent(planned)) ELSE f
        dst == IF Exists(f1, planned) THEN GetUniqueFilename(f1, planned) ELSE planned
        canMove == canMk /\ IsFile(f1, src) /\ env \notin {"move", "copied"}
    IN  [fs |-> IF canMove THEN ShutilMove(f1, src, dst)
                ELSE IF canMk /\ IsFile(f1, src) /\ env = "copied" THEN Put(f1, dst, f1[src])
                ELSE f1,
         planned |-> planned,
         dst |-> dst,
         ok |-> canMove]

\* What one _move_single_file call does, under the environment's answer env
\* ("ok", or the step that raises OSError: "mkdir" the parent's creation,
\* "move" shutil.move before it changed anything, "copied" shutil.move after
\* the copy was written and before the source was removed):
\* the filesystem afterwards, the path moved to, True / raised
MoveSingleFile(f, info, destination_root, dry_run, env) ==
    LET src == info.path
        planned == DestinationPath(destination_root, src)
        canMk == CanMkdirs(f, PathParent(planned)) /\ env # "mkdir"
        f1 == IF canMk THEN Mkdirs(f, PathParent(planned)) ELSE f
        dst == IF Exists(f1, planned) THEN GetUniqueFilename(f1, planned) ELSE planned
        canMove == canMk /\ IsFile(f1, src) /\ env \notin {"move", "copied"}
    IN  IF dry_run
        THEN [fs |-> f, planned |-> planned, dst |-> planned, ok |-> TRUE]
        ELSE [fs |-> IF canMove THEN ShutilMove(f1, src, dst)
                     ELSE IF canMk /\ IsFile(f1, src) /\ env = "copied"
                          THEN Put(f1, dst, f1[src])
                     ELSE f1,
              planned |-> planned,
              dst |-> dst,
              ok |-> canMove]

\* a variant that records no error for a failed move
StatsAfterMutant(st, info, ok) ==
    IF ok THEN [st EXCEPT !.moved_files = @ + 1, !.total_space_freed = @ + info.size]
    ELSE st

\* the statistics after one iteration of the loop over files_to_move
StatsAfter(st, info, ok) ==
    IF ok THEN [st EXCEPT !.moved_files = @ + 1, !.total_space_freed = @ + info.size]
    ELSE [st EXCEPT !.errors = Append(@, [what |-> "move", path |-> info.path])]

Envs == {"ok", "mkdir", "move", "copied"}

NoCall == [destination |-> <<>>, keep_first |-> TRUE, dry_run |-> FALSE, groups |-> <<>>]

\* move_duplicates up to its loop: the statistics dictionary and the creation
\* of the destination root
BeginMove(groups, destination, keep_first, dry_run, env) ==
    LET make == ~dry_run /\ ~Exists(fs, destination)
        made == make /\ CanMkdirs(fs, destination) /\ env = "ok"
    IN  /\ call' = [destination |-> destination, keep_first |-> keep_first,
                    dry_run |-> dry_run, groups |-> groups]
        /\ fs0' = fs
        /\ log' = <<>>
        /\ gi' = 1
        /\ fi' = 0
        /\ nfail' = IF env = "ok" THEN nfail ELSE nfail + 1
        /\ env # "ok" => make /\ nfail < MaxFailures
        /\ IF make /\ ~made
           THEN /\ stats' = [EmptyStats EXCEPT
                                !.errors = <<[what |-> "root", path |-> destination]>>]
                /\ fs' = fs
                /\ pc' = "returned"
           ELSE /\ stats' = [EmptyStats EXCEPT !.created_dirs = IF made THEN 1 ELSE 0]
                /\ fs' = IF made THEN Mkdirs(fs, destination) ELSE fs
                /\ pc' = "moving"

\* the head of the loop over the groups: skip a group of fewer than two
\* files, count the others
MoveGroup ==
    /\ pc = "moving"
    /\ gi <= Len(call.groups)
    /\ fi = 0
    /\ IF Len(call.groups[gi].val) < 2
       THEN /\ gi' = gi + 1
            /\ UNCHANGED <<fi, stats>>
       ELSE /\ stats' = [stats EXCEPT !.moved_groups = @ + 1]
            /\ fi' = 1
            /\ gi' = gi
    /\ UNCHANGED <<fs, files, reads, nscans, naccess, dups, by, shown, args, call,
                   log, fs0, nfail, runs, pc>>

\* one iteration of the loop over files_to_move
MoveFile ==
    /\ pc = "moving"
    /\ gi <= Len(call.groups)
    /\ fi >= 1
    /\ LET todo == FilesToMove(call.groups[gi].val, call.keep_first)
       IN  IF fi > Len(todo)
           THEN /\ gi' = gi + 1
                /\ fi' = 0
                /\ UNCHANGED <<fs, stats, log, nfail>>
           ELSE \E env \in Envs :
                  LET info == files[todo[fi]]
                      r == MoveSingleFile(fs, info, call.destination, call.dry_run, env)
                  IN  /\ env # "ok" => ~call.dry_run /\ nfail < MaxFailures
                      /\ nfail' = IF env = "ok" THEN nfail ELSE nfail + 1
                      /\ fs' = r.fs
                      /\ stats' = StatsAfter(stats, info, r.ok)
                      /\ log' = Append(log, [idx |-> todo[fi], src |-> info.path,
                                             planned |-> r.planned, dst |-> r.dst,
                                             ok |-> r.ok,
                                             moved |-> /\ IsFile(fs, info.path)
                                                       /\ ~IsFile(r.fs, info.path)
                                                       /\ IsFile(r.fs, r.dst)])
                      /\ fi' = fi + 1
                      /\ gi' = gi
    /\ UNCHANGED <<files, reads, nscans, naccess, dups, by, shown, args, call,
                   fs0, runs, pc>>

\* return stats
MoveReturn ==
    /\ pc = "moving"
    /\ gi > Len(call.groups)
    /\ pc' = "returned"
    /\ UNCHANGED <<fs, files, reads, nscans, naccess, dups, by, shown, args, call,
                   stats, gi, fi, log, fs0, nfail, runs>>

----------------------------------------------------------------------------
(* A caller of the class: one scan, one find_duplicates_*, one move_duplicates *)

NoArgs == [directory |-> <<>>, by_content |-> FALSE, by_size |-> FALSE,
           by_name |-> FALSE, by_stem |-> FALSE, all |-> FALSE, types |-> {},
           no_recursive |-> FALSE, move_to |-> <<>>, move_all |-> FALSE,
           dry_run |-> FALSE]

ScanRoots == {Cwd, <<O>>, Cwd \o <<X, At>>, <<O, D>>}
TypeFilters == {{}, {<<".", "t">>}}
DestRoots == {Cwd \o <<D>>, Cwd, Cwd \o <<A>>}

\* a variant in which a new finder starts from the records already collected
NewFinderMutant == files

\* DuplicateFinder()
NewFinder == <<>>

InitAt(start) ==
    /\ fs \in Trees
    /\ files = <<>>
    /\ reads = <<>>
    /\ nscans = 0
    /\ naccess = 0
    /\ dups = <<>>
    /\ by = "none"
    /\ shown = <<>>
    /\ args = NoArgs
    /\ call = NoCall
    /\ stats = EmptyStats
    /\ gi = 0
    /\ fi = 0
    /\ log = <<>>
    /\ fs0 = fs
    /\ nfail = 0
    /\ runs = <<>>
    /\ pc = start

Init == InitAt("new")

\* files and reads after scan_directory
ScanEffect(directory, recursive, types) ==
    /\ files' = ScanDirectory(fs, files, directory, recursive, types)
    /\ reads' = reads \o [i \in 1..(Len(files') - Len(files)) |-> 0]
    /\ nscans' = nscans + 1

\* files, reads, dups and by after find_duplicates_<crit>
FindEffect(crit) ==
    /\ files' = FilesAfterFind(fs, files, reads, crit).files
    /\ reads' = FilesAfterFind(fs, files, reads, crit).reads
    /\ dups' = FindDuplicates(fs, files, reads, crit)
    /\ by' = crit

Scan ==
    /\ pc = "new"
    /\ \E directory \in ScanRoots, recursive \in BOOLEAN, types \in TypeFilters :
          ScanEffect(directory, recursive, types)
    /\ pc' = "scanned"
    /\ UNCHANGED <<fs, naccess, dups, by, shown, args, call, stats, gi, fi, log,
                   fs0, nfail, runs>>

Find ==
    /\ pc = "scanned"
    /\ \E k \in 1..Len(Criteria) : FindEffect(Criteria[k])
    /\ pc' = "grouped"
    /\ UNCHANGED <<fs, nscans, naccess, shown, args, call, stats, gi, fi, log,
                   fs0, nfail, runs>>

MoveDuplicates ==
    /\ pc = "grouped"
    /\ \E destination \in DestRoots, keep_first \in BOOLEAN, dry_run \in BOOLEAN,
          env \in {"ok", "mkdir"} :
          BeginMove(dups, destination, keep_first, dry_run, env)
    /\ UNCHANGED <<files, reads, nscans, naccess, dups, by, shown, args, runs>>

Next == Scan \/ Find \/ MoveDuplicates \/ MoveGroup \/ MoveFile \/ MoveReturn

Spec == Init /\ [][Next]_vars

----------------------------------------------------------------------------
(* A caller of the class that scans, reads hashes and groups in any order *)

ApiScan ==
    /\ pc = "api"
    /\ nscans < MaxScans
    /\ \E directory \in ScanRoots, recursive \in BOOLEAN, types \in TypeFilters :
          ScanEffect(directory, recursive, types)
    /\ UNCHANGED <<fs, naccess, dups, by, shown, args, call, stats, gi, fi, log,
                   fs0, nfail, runs, pc>>

\* one evaluation of file_info.hash
ApiHash ==
    /\ pc = "api"
    /\ naccess < MaxAccess
    /\ \E i \in 1..Len(files) :
          /\ files' = HashAccess(fs, files, reads, i).files
          /\ reads' = HashAccess(fs, files, reads, i).reads
    /\ naccess' = naccess + 1
    /\ UNCHANGED <<fs, nscans, dups, by, shown, args, call, stats, gi, fi, log,
                   fs0, nfail, runs, pc>>

ApiFind ==
    /\ pc = "api"
    /\ naccess < MaxAccess
    /\ \E k \in 1..Len(Criteria) : FindEffect(Criteria[k])
    /\ naccess' = naccess + 1
    /\ UNCHANGED <<fs, nscans, shown, args, call, stats, gi, fi, log,
                   fs0, nfail, runs, pc>>

NextScan == ApiScan \/ ApiHash \/ ApiFind

SpecScan == InitAt("api") /\ [][NextScan]_vars

----------------------------------------------------------------------------
(* The scan+group pipeline run MaxRuns times with the same arguments, each   *)
(* run with a finder of its own, as main makes one                           *)

\* the groups of a dictionary with each member's path in place of its index
GroupPaths(d, fl) ==
    [g \in 1..Len(d) |->
        [key |-> d[g].key, val |-> [k \in 1..Len(d[g].val) |-> fl[d[g].val[k]].path]]]

FlagOf(a, crit) ==
    CASE crit = "content" -> a.by_content
      [] crit = "size" -> a.by_size
      [] crit = "name" -> a.by_name
      [] crit = "stem" -> a.by_stem

WithFlag(a, crit) ==
    [a EXCEPT !.by_content = (crit = "content"), !.by_size = (crit = "size"),
              !.by_name = (crit = "name"), !.by_stem = (crit = "stem")]

TwiceStart ==
    /\ pc = "t_start"
    /\ \E directory \in ScanRoots, no_recursive \in BOOLEAN, types \in TypeFilters,
          k \in 1..Len(Criteria) :
          args' = WithFlag([NoArgs EXCEPT !.directory = directory,
                                          !.no_recursive = no_recursive,
                                          !.types = types], Criteria[k])
    /\ pc' = "t_new"
    /\ UNCHANGED <<fs, files, reads, nscans, naccess, dups, by, shown, call, stats,
                   gi, fi, log, fs0, nfail, runs>>

TwiceNew ==
    /\ pc = "t_new"
    /\ files' = NewFinder
    /\ reads' = [i \in 1..Len(files') |-> 0]
    /\ nscans' = 0
    /\ pc' = "t_scan"
    /\ UNCHANGED <<fs, naccess, dups, by, shown, args, call, stats, gi, fi, log,
                   fs0, nfail, runs>>

TwiceScan ==
    /\ pc = "t_scan"
    /\ ScanEffect(args.directory, ~args.no_recursive, args.types)
    /\ pc' = "t_find"
    /\ UNCHANGED <<fs, naccess, dups, by, shown, args, call, stats, gi, fi, log,
                   fs0, nfail, runs>>

TwiceFind ==
    /\ pc = "t_find"
    /\ \E k \in 1..Len(Criteria) :
          /\ FlagOf(args, Criteria[k])
          /\ FindEffect(Criteria[k])
    /\ runs' = Append(runs, GroupPaths(dups', files'))
    /\ pc' = IF Len(runs') < MaxRuns THEN "t_new" ELSE "t_done"
    /\ UNCHANGED <<fs, nscans, naccess, shown, args, call, stats, gi, fi, log,
                   fs0, nfail>>

NextTwice == TwiceStart \/ TwiceNew \/ TwiceScan \/ TwiceFind

SpecTwice == InitAt("t_start") /\ [][NextTwice]_vars

----------------------------------------------------------------------------
(* main *)

MoveTargets == {<<>>, Cwd \o <<D>>}

\* parse_args, the default criterion, finder = DuplicateFinder()
MainParse ==
    /\ pc = "m_start"
    /\ \E directory \in {Cwd, <<O>>}, no_recursive \in BOOLEAN,
          by_content \in BOOLEAN, by_size \in BOOLEAN, by_name \in BOOLEAN,
          by_stem \in BOOLEAN, all \in BOOLEAN,
          move_to \in MoveTargets, move_all \in BOOLEAN, dry_run \in BOOLEAN :
          LET none == ~(by_content \/ by_size \/ by_name \/ by_stem \/ all)
          IN  args' = [directory |-> directory,
                       by_content |-> IF none THEN TRUE ELSE by_content,
                       by_size |-> by_size, by_name |-> by_name, by_stem |-> by_stem,
                       all |-> all, types |-> {}, no_recursive |-> no_recursive,
                       move_to |-> move_to, move_all |-> move_all, dry_run |-> dry_run]
    /\ files' = NewFinder
    /\ reads' = [i \in 1..Len(files') |-> 0]
    /\ nscans' = 0
    /\ pc' = "m_scan"
    /\ UNCHANGED <<fs, naccess, dups, by, shown, call, stats, gi, fi, log, fs0,
                   nfail, runs>>

\* finder.scan_directory(...); return when nothing was found; all_duplicates = {}
MainScan ==
    /\ pc = "m_scan"
    /\ ScanEffect(args.directory, ~args.no_recursive, args.types)
    /\ dups' = <<>>
    /\ pc' = IF files' = <<>> THEN "done" ELSE "content"
    /\ UNCHANGED <<fs, naccess, by, shown, args, call, stats, gi, fi, log, fs0,
                   nfail, runs>>

\* the condition under which the block of a criterion adds its groups to all_duplicates
UpdatesAll(a, crit) ==
    /\ a.move_to # <<>>
    /\ CASE crit = "content" -> TRUE
         [] crit = "size" -> ~a.by_content
         [] crit = "name" -> ~(a.by_content \/ a.by_size)
         [] crit = "stem" -> ~(a.by_content \/ a.by_size \/ a.by_name)

NextBlock(crit) ==
    CASE crit = "content" -> "size"
      [] crit = "size" -> "name"
      [] crit = "name" -> "stem"
      [] crit = "stem" -> "m_move"

\* one of the four blocks "if args.all or args.by_<crit>:"
MainFind ==
    /\ pc \in Range(Criteria)
    /\ IF args.all \/ FlagOf(args, pc)
       THEN /\ files' = FilesAfterFind(fs, files, reads, pc).files
            /\ reads' = FilesAfterFind(fs, files, reads, pc).reads
            /\ by' = pc
            /\ shown' = Append(shown, [crit |-> pc,
                                       groups |-> FindDuplicates(fs, files, reads, pc)])
            /\ dups' = IF UpdatesAll(args, pc)
                       THEN DictUpdate(dups, FindDuplicates(fs, files, reads, pc))
                       ELSE dups
       ELSE UNCHANGED <<files, reads, by, shown, dups>>
    /\ pc' = NextBlock(pc)
    /\ UNCHANGED <<fs, nscans, naccess, args, call, stats, gi, fi, log, fs0, nfail, runs>>

\* "if args.move_to and all_duplicates:" finder.move_duplicates(...)
MainMove ==
    /\ pc = "m_move"
    /\ IF args.move_to # <<>> /\ dups # <<>>
       THEN \E env \in {"ok", "mkdir"} :
               BeginMove(dups, args.move_to, ~args.move_all, args.dry_run, env)
       ELSE /\ pc' = "done"
            /\ UNCHANGED <<fs, call, stats, gi, fi, log, fs0, nfail>>
    /\ UNCHANGED <<files, reads, nscans, naccess, dups, by, shown, args, runs>>

\* the summary printed after move_duplicates returned
MainSummary ==
    /\ pc = "returned"
    /\ pc' = "done"
    /\ UNCHANGED <<fs, files, reads, nscans, naccess, dups, by, shown, args, call,
                   stats, gi, fi, log, fs0, nfail, runs>>

NextMain == MainParse \/ MainScan \/ MainFind \/ MainMove
            \/ MoveGroup \/ MoveFile \/ MoveReturn \/ MainSummary

SpecMain == InitAt("m_start") /\ [][NextMain]_vars

----------------------------------------------------------------------------
(* Properties of move_duplicates, under Spec *)

\* the members of a group that are selected for moving
Selected(group, keep_first) == IF keep_first THEN SubSeq(group, 2, Len(group)) ELSE group

\* the indices selected for moving in all groups of at least two files, in order
SelectedAll(groups, keep_first) ==
    Concat([g \in 1..Len(groups) |->
              IF Len(groups[g].val) < 2 THEN <<>> ELSE Selected(groups[g].val, keep_first)])

MovedEntries == {k \in 1..Len(log) : log[k].moved}

\* C1: after a non-dry-run move_duplicates with keep_first (read here in its
\* most favourable sense, when no error was recorded), the first file of every
\* group is still at its original path, and every other member is gone from
\* its original path and present at the destination path computed for it.
C1_RelocationInvariant ==
    (pc = "returned" /\ call.keep_first /\ ~call.dry_run /\ stats.errors = <<>>) =>
        \A g \in 1..Len(call.groups) :
            LET m == call.groups[g].val
            IN  /\ IsFile(fs, files[m[1]].path)
                /\ \A k \in 2..Len(m) :
                      /\ ~IsFile(fs, files[m[k]].path)
                      /\ \E e \in 1..Len(log) : log[e].idx = m[k] /\ IsFile(fs, log[e].dst)

\* the numbered names _get_unique_filename can give for a planned path
Numbered(planned, k) ==
    PathParent(planned) \o <<PathStem(PathName(planned)) \o <<"_">> \o IntStr(k)
                               \o PathSuffix(PathName(planned))>>

\* a step keeps every existing file: unchanged, or re-entered under a new path
C2_StepKeepsFiles ==
    \A p \in DOMAIN fs :
        fs[p].kind = "file" =>
            \/ (p \in DOMAIN fs' /\ fs'[p] = fs[p])
            \/ (p \notin DOMAIN fs' /\ \E q \in DOMAIN fs' \ DOMAIN fs : fs'[q] = fs[p])

\* a successful move lands on the planned path if free, else on the first free name_k.ext
C2_StepRenames ==
    (Len(log') = Len(log) + 1 /\ ~call.dry_run /\ log'[Len(log')].ok) =>
        LET e == log'[Len(log')]
        IN  /\ e.dst \notin DOMAIN fs
            /\ e.planned \in DOMAIN fs =>
                  \E k \in 1..(Cardinality(DOMAIN fs) + 1) :
                      /\ e.dst = Numbered(e.planned, k)
                      /\ \A j \in 1..(k - 1) : Numbered(e.planned, j) \in DOMAIN fs
            /\ e.planned \notin DOMAIN fs => e.dst = e.planned

\* on return, two moved files whose computed destination paths were the same
\* are both present, at different paths, each with the content its source had
C2_BothPresent ==
    (pc = "returned" /\ ~call.dry_run) =>
        \A i, j \in MovedEntries :
            (i < j /\ log[i].planned = log[j].planned) =>
                /\ log[i].dst # log[j].dst
                /\ IsFile(fs, log[i].dst)
                /\ IsFile(fs, log[j].dst)
                /\ fs[log[i].dst].content = fs0[log[i].src].content
                /\ fs[log[j].dst].content = fs0[log[j].src].content

\* C2: a non-dry-run move never overwrites a file: in every step each existing
\* file either stays as it is, or is gone and its entry is found under a path
\* that did not exist before the step; a file whose planned destination
\* existed goes to name_k.ext, the first such name that did not exist; and on
\* return both of two files that computed the same destination are present.
C2_NeverOverwrites ==
    [](C2_BothPresent) /\ [][C2_StepKeepsFiles /\ C2_StepRenames]_vars

\* two files moved by one call whose computed destination paths are the same:
\* the later one was renamed, both are present
C2_Witness ==
    /\ pc = "returned"
    /\ \E i, j \in MovedEntries :
          /\ i < j
          /\ log[i].planned = log[j].planned
          /\ log[j].dst = Numbered(log[j].planned, 1)
          /\ IsFile(fs, log[i].dst)
          /\ IsFile(fs, log[j].dst)

\* C3: a dry run changes nothing in the filesystem, for any groups and any
\* keep_first: while and after move_duplicates runs with dry_run, the
\* filesystem is the one it was called on (no file moved, no directory made).
C3_DryRunPure ==
    (pc \in {"moving", "returned"} /\ call.dry_run) => fs = fs0

\* a dry run over at least two selected files, to a destination that does not exist
C3_Witness ==
    /\ pc = "returned"
    /\ call.dry_run
    /\ Len(log) >= 2
    /\ ~Exists(fs, call.destination)
    /\ \E k \in 1..Len(log) : ~Exists(fs, PathParent(log[k].planned))

\* on return every selected file was attempted once, in order, and counted once
C7_Attempted ==
    (pc = "returned" /\ ~call.dry_run
        /\ (Exists(fs0, call.destination) \/ stats.created_dirs = 1)) =>
        /\ [k \in 1..Len(log) |-> log[k].idx] = SelectedAll(call.groups, call.keep_first)
        /\ stats.moved_files + Len(stats.errors) = Len(log)
        /\ stats.moved_files = Cardinality({k \in 1..Len(log) : log[k].ok})
        /\ [k \in 1..Len(stats.errors) |-> stats.errors[k].path]
             = [k \in 1..Len(stats.errors) |->
                  SelectSeq(log, LAMBDA e : ~e.ok)[k].src]

\* a failed attempt leaves the source entry alone and adds one error
C7_FailedStep ==
    (Len(log') = Len(log) + 1 /\ ~log'[Len(log')].ok) =>
        LET src == log'[Len(log')].src
        IN  /\ (src \in DOMAIN fs) = (src \in DOMAIN fs')
            /\ src \in DOMAIN fs => fs'[src] = fs[src]
            /\ Len(stats'.errors) = Len(stats.errors) + 1
            /\ stats'.moved_files = stats.moved_files

\* C7: in a non-dry-run call whose destination root exists or was created,
\* every selected file of every group of at least two is attempted exactly
\* once, in order, whatever failed before it; a failed attempt leaves the
\* entry at its source path as it was and adds exactly one error message; on
\* return moved_files + len(errors) is the number of selected files.
C7_FailureIsolation == [](C7_Attempted) /\ [][C7_FailedStep]_vars

\* a failed move followed by a successful one; the failed file is still at its source
C7_Witness ==
    /\ pc = "returned"
    /\ ~call.dry_run
    /\ \E i, j \in 1..Len(log) :
          /\ i < j
          /\ ~log[i].ok
          /\ log[j].ok
          /\ IsFile(fs, log[i].src)
          /\ stats.moved_files >= 1
          /\ Len(stats.errors) >= 1

\* C8: for every keep_first and dry_run, on return moved_files is the number
\* of files actually moved (gone from their source, present at a destination)
\* and total_space_freed the sum of the sizes of exactly those files.
C8_StatsCountMoved ==
    pc = "returned" =>
        /\ stats.moved_files = Cardinality(MovedEntries)
        /\ stats.total_space_freed
             = SumSeq([k \in 1..Len(log) |->
                         IF log[k].moved THEN files[log[k].idx].size ELSE 0])

\* the same restricted to calls that are not dry runs
C8_StatsCountMovedNoDryRun == call.dry_run \/ C8_StatsCountMoved

----------------------------------------------------------------------------
(* Properties of scanning, hashing and grouping *)

\* C4: every group a find_duplicates_* method returned has at least two
\* members, every member has exactly the group's key (its hash, size, name or
\* stem), and a record whose hash is absent is in no content group.
C4_GroupsWellFormed ==
    by # "none" =>
        \A g \in 1..Len(dups) :
            /\ Len(dups[g].val) >= 2
            /\ \A k \in 1..Len(dups[g].val) :
                  LET r == files[dups[g].val[k]]
                  IN  CASE by = "content" ->
                             /\ r.hash # None
                             /\ dups[g].key = <<"str">> \o r.hash
                             /\ r.hash = <<"#">> \o fs[r.path].content
                        [] by = "size" -> dups[g].key = <<"int">> \o IntStr(r.size)
                        [] by = "name" -> dups[g].key = <<"str">> \o r.name
                        [] by = "stem" -> dups[g].key = <<"str">> \o r.stem

\* content groups were returned while a scanned record's hash is absent, and
\* some record is alone with its key
C4_Witness ==
    /\ by = "content"
    /\ dups # <<>>
    /\ \E i \in 1..Len(files) : reads[i] >= 1 /\ files[i].hash = None
    /\ \E i \in 1..Len(files) :
          /\ files[i].hash # None
          /\ \A j \in 1..Len(files) : files[j].hash = files[i].hash => j = i

\* C6: the content hash of a record is computed at most once, whether the
\* first read succeeded or failed.
C6_HashComputedOnce ==
    \A i \in 1..Len(files) : reads[i] <= 1

\* C10: self.files holds at most one record per path.
C10_OneRecordPerPath ==
    \A i, j \in 1..Len(files) : files[i].path = files[j].path => i = j

----------------------------------------------------------------------------
(* Properties of main, under SpecMain *)

\* C9: with --move-to, move_duplicates is given only the groups of the first
\* selected criterion in the order content, size, name, stem (the first one
\* display_duplicates was given), also under --all.
C9_OnlyFirstCriterion ==
    pc \in {"moving", "returned"} => call.groups = shown[1].groups

\* the same for the runs without --all
C9_OnlyFirstCriterionNoAll ==
    args.all \/ C9_OnlyFirstCriterion

====
